---- MODULE Spec2Model ----
(***************************************************************************)
(* Middleware chains of main.go: the authorization stages, the logging     *)
(* stage, the terminal handlers, Chain, and the handlers the main_*        *)
(* functions register, invoked by requests that may run concurrently.      *)
(*                                                                         *)
(* A handler is the sequence of the function values nested in it, the      *)
(* outermost first and the terminal handler last: m(f) is <<m>> \o f.      *)
(***************************************************************************)
EXTENDS Integers, Sequences, FiniteSets, TLC

\* ---------------------------------------------------------------- bounds
\* Number of requests that may be in flight at once (ConcSpec).
NumReq == 2
\* Longest middleware list handed to Chain (Spec).
MaxMiddlewares == 2

\* ------------------------------------------------------------- constants
StatusUnauthorized == 401
StatusInternalServerError == 500

\* Values of the Authorization header and of the path variable id. "" is the
\* value Header.Get and mux.Vars(req)["id"] give for a missing entry.
Strings == {"", "a", "b"}

\* Values of the path variable id: "" (missing or empty) and "a"; a header may
\* equal either, or differ from both ("b").
Ids == {"", "a"}

Requests == 1 .. NumReq

\* --------------------------------------------------------------- handlers
AuthStages == {"AuthorizationMiddleware", "AuthFunc", "MWAuthFunc"}

\* The Middleware values of the slice-based example.
Middlewares == {"AuthFunc", "LoggingFunc"}

\* Terminal handlers: the two of main.go, and the other behaviours a
\* http.HandlerFunc handed to Chain or wrapped by LoggingFunc may have: a
\* handler is a sequence of operations on its response writer, ended or not
\* by a panic.
Terminals ==
    {"GetAccount", "SayHello", "PanicString", "PanicError",
     "WritePanicString", "WritePanicError"}

\* GetAccount: io.WriteString(rw, `{"message": "hello world.."}`)
GetAccount == << <<"write", "{\"message\": \"hello world..\"}">> >>

\* SayHello: fmt.Fprintln(w, "Hello client")
SayHello == << <<"write", "Hello client\n">> >>

\* What a terminal handler does, in order.
TerminalOps(t) ==
    CASE t = "GetAccount" -> GetAccount
      [] t = "SayHello" -> SayHello
      [] t = "PanicString" -> << <<"panic", "string">> >>
      [] t = "PanicError" -> << <<"panic", "error">> >>
      [] t = "WritePanicString" -> << <<"write", "partial">>, <<"panic", "string">> >>
      [] t = "WritePanicError" -> << <<"write", "partial">>, <<"panic", "error">> >>

\* ------------------------------------------------------- response writer
\* status = 0: no status line written yet. calls: explicit WriteHeader calls.
\* late: an explicit WriteHeader call arrived after the header or body bytes
\* had been written (net/http ignores it as superfluous).
NewResponse == [status |-> 0, calls |-> 0, late |-> FALSE, body |-> <<>>]

\* rw.WriteHeader(code)
WriteHeader(w, code) ==
    [w EXCEPT !.status = IF w.status = 0 THEN code ELSE w.status,
              !.calls = w.calls + 1,
              !.late = w.late \/ w.status # 0]

\* io.WriteString(rw, s) / fmt.Fprintln(w, s): the first write sends 200.
WriteBody(w, s) ==
    [w EXCEPT !.status = IF w.status = 0 THEN 200 ELSE w.status,
              !.body = Append(w.body, s)]

\* ------------------------------------------------------------ the stages
\* A stage's pre-logic, as a function of the header value and the path
\* variable: the lines it prints, the status it writes (0: none), and
\* whether it calls next.
Reject(line) == [out |-> <<line>>, status |-> StatusUnauthorized, next |-> FALSE]

\* Mutant: the ownership comparison is left out.
AuthorizationMiddlewareNoCompare(profile, tokenID) ==
    IF Len(profile) = 0 THEN Reject(<<"missing auth token">>)
    ELSE [out |-> <<>>, status |-> 0, next |-> TRUE]

AuthorizationMiddleware(profile, tokenID) ==
    IF Len(profile) = 0 THEN Reject(<<"missing auth token">>)
    ELSE IF profile # tokenID THEN Reject(<<"ownership not matched">>)
    ELSE [out |-> <<>>, status |-> 0, next |-> TRUE]

\* Mutant: the missing-token check is left out too.
AuthorizationMiddleware_BadNoCheck(profile, tokenID) ==
    [out |-> << <<"tokenID: ", tokenID>> >>, status |-> 0, next |-> TRUE]

AuthorizationMiddleware_Bad(profile, tokenID) ==
    IF Len(profile) = 0 THEN Reject(<<"missing auth token">>)
    ELSE [out |-> << <<"tokenID: ", tokenID>> >>, status |-> 0, next |-> TRUE]

\* Mutant: the ownership comparison is left out.
AuthFuncNoCompare(profile, tokenID) ==
    IF Len(profile) = 0 THEN Reject(<<"missing auth token">>)
    ELSE [out |-> << <<"tokenID: ", tokenID>> >>, status |-> 0, next |-> TRUE]

AuthFunc(profile, tokenID) ==
    IF Len(profile) = 0 THEN Reject(<<"missing auth token">>)
    ELSE IF profile # tokenID THEN Reject(<<"ownership not matched">>)
    ELSE [out |-> << <<"tokenID: ", tokenID>> >>, status |-> 0, next |-> TRUE]

\* Mutant: the comparison is inverted (profile == tokenID rejects).
MWAuthFuncInverted(profile, tokenID) ==
    IF Len(profile) = 0 THEN Reject(<<"missing auth token">>)
    ELSE IF profile = tokenID THEN Reject(<<"ownership not matched">>)
    ELSE [out |-> << <<"tokenID: ", tokenID>> >>, status |-> 0, next |-> TRUE]

MWAuthFunc(profile, tokenID) ==
    IF Len(profile) = 0 THEN Reject(<<"missing auth token">>)
    ELSE IF profile # tokenID THEN Reject(<<"ownership not matched">>)
    ELSE [out |-> << <<"tokenID: ", tokenID>> >>, status |-> 0, next |-> TRUE]

\* LoggingFunc: fmt.Println(req), register the deferred recover, call next.
LoggingFunc(profile, tokenID) ==
    [out |-> << <<"request", profile, tokenID>> >>, status |-> 0, next |-> TRUE]

\* Mutant: the deferred function writes the status whether or not a panic
\* was recovered.
LoggingFuncDeferredAlways(panicValue) ==
    [recovers |-> panicValue # "none", status |-> StatusInternalServerError]

\* LoggingFunc's deferred function, run when the stage's frame is left.
\* panicValue is "none" when next returned normally. recover() stops any
\* panic; the status is written only when the value asserts to error.
LoggingFuncDeferred(panicValue) ==
    [recovers |-> panicValue # "none",
     status |-> IF panicValue = "error" THEN StatusInternalServerError ELSE 0]

PreLogic(stage, profile, tokenID) ==
    CASE stage = "AuthorizationMiddleware" -> AuthorizationMiddleware(profile, tokenID)
      [] stage = "AuthorizationMiddleware_Bad" -> AuthorizationMiddleware_Bad(profile, tokenID)
      [] stage = "AuthFunc" -> AuthFunc(profile, tokenID)
      [] stage = "MWAuthFunc" -> MWAuthFunc(profile, tokenID)
      [] stage = "LoggingFunc" -> LoggingFunc(profile, tokenID)

\* ----------------------------------------------------------- composition
\* m(f): the handler m returns closes over f and is entered first.
Wrap(m, f) == <<m>> \o f

\* Chain: for _, m := range middlewares { f = m(f) }; return f
RECURSIVE ChainFrom(_, _, _)
ChainFrom(f, middlewares, i) ==
    IF i > Len(middlewares) THEN f
    ELSE ChainFrom(Wrap(middlewares[i], f), middlewares, i + 1)

\* Mutant: the list is folded from its end, so that its first middleware
\* wraps outermost.
RECURSIVE ChainFromEnd(_, _, _)
ChainFromEnd(f, middlewares, i) ==
    IF i < 1 THEN f
    ELSE ChainFromEnd(Wrap(middlewares[i], f), middlewares, i - 1)

ChainFirstOutermost(f, middlewares) == ChainFromEnd(f, middlewares, Len(middlewares))

Chain(f, middlewares) == ChainFrom(f, middlewares, 1)

main_bad == <<"GetAccount">>
main_good == Wrap("AuthorizationMiddleware", <<"GetAccount">>)
main_bad2 == Wrap("AuthorizationMiddleware_Bad", <<"GetAccount">>)
main_chain == Chain(<<"SayHello">>, <<"AuthFunc", "LoggingFunc">>)
\* r.Use(MWAuthFunc(r)) on the route whose handler is SayHello.
main_uses_chain == Wrap("MWAuthFunc", <<"SayHello">>)

Mains == {"main_bad", "main_good", "main_bad2", "main_chain", "main_uses_chain"}

MainHandler(m) ==
    CASE m = "main_bad" -> main_bad
      [] m = "main_good" -> main_good
      [] m = "main_bad2" -> main_bad2
      [] m = "main_chain" -> main_chain
      [] m = "main_uses_chain" -> main_uses_chain

\* The middleware lists of length at most n.
RECURSIVE MiddlewareLists(_)
MiddlewareLists(n) ==
    IF n = 0 THEN {<<>>}
    ELSE MiddlewareLists(n - 1) \cup
         {Append(l, m) : l \in {x \in MiddlewareLists(n - 1) : Len(x) = n - 1},
                         m \in Middlewares}

\* ------------------------------------------------------------------ state
VARIABLES
    program,      \* which function built the handler: a main_*, or "Chain"
    terminal,     \* the terminal handler handed to the composition
    middlewares,  \* the list handed to Chain (<<>> when Chain is not used)
    chain,        \* the composed handler
    req,          \* per request: its Authorization header and its id
    pc,           \* per request: where its invocation stands
    resp,         \* per request: its response writer
    ran,          \* per request: the functions entered so far, in order
    stdout        \* the process's standard output

vars == <<program, terminal, middlewares, chain, req, pc, resp, ran, stdout>>

Idle == [mode |-> "idle", depth |-> 0, val |-> "none"]

InitRequests ==
    /\ req = [r \in Requests |-> [hdr |-> "", id |-> ""]]
    /\ pc = [r \in Requests |-> Idle]
    /\ resp = [r \in Requests |-> NewResponse]
    /\ ran = [r \in Requests |-> <<>>]
    /\ stdout = <<>>

\* A handler registered by one of the main_* functions.
InitMain ==
    /\ program \in Mains
    /\ chain = MainHandler(program)
    /\ terminal = chain[Len(chain)]
    /\ middlewares = IF program = "main_chain" THEN <<"AuthFunc", "LoggingFunc">> ELSE <<>>

\* A handler built by Chain from any terminal handler and middleware list.
InitChain ==
    /\ program = "Chain"
    /\ terminal \in Terminals
    /\ middlewares \in MiddlewareLists(MaxMiddlewares)
    /\ chain = Chain(<<terminal>>, middlewares)

Init == (InitMain \/ InitChain) /\ InitRequests

ConcInit == InitMain /\ InitRequests

\* ---------------------------------------------------------------- actions
Composition == <<program, terminal, middlewares, chain>>

\* The server hands request r to the composed handler.
Receive(r) ==
    /\ pc[r].mode = "idle"
    /\ \E h \in Strings, i \in Ids :
          req' = [req EXCEPT ![r] = [hdr |-> h, id |-> i]]
    /\ pc' = [pc EXCEPT ![r] = [mode |-> "call", depth |-> 1, val |-> "none"]]
    /\ UNCHANGED <<Composition, resp, ran, stdout>>

\* Mutant: the header is read from one request for all of them (a value held
\* outside the per-request closure).
ProfileShared(r) == req[1].hdr

\* profile := req.Header.Get("Authorization"): the request's own header.
Profile(r) == req[r].hdr

\* tokenID := mux.Vars(req)["id"]: the request's own path variable.
TokenID(r) == req[r].id

\* A middleware stage is entered and runs up to its call of next or its return.
EnterStage(r) ==
    /\ pc[r].mode = "call"
    /\ pc[r].depth < Len(chain)
    /\ LET d == pc[r].depth
           res == PreLogic(chain[d], Profile(r), TokenID(r))
       IN /\ ran' = [ran EXCEPT ![r] = Append(@, chain[d])]
          /\ stdout' = stdout \o res.out
          /\ resp' = [resp EXCEPT ![r] =
                        IF res.status # 0 THEN WriteHeader(@, res.status) ELSE @]
          /\ pc' = [pc EXCEPT ![r] =
                        IF res.next
                        THEN [mode |-> "call", depth |-> d + 1, val |-> "none"]
                        ELSE [mode |-> "ret", depth |-> d - 1, val |-> "none"]]
    /\ UNCHANGED <<Composition, req>>

\* The response writer and the outcome after the operations ops[i..].
RECURSIVE RunOps(_, _, _)
RunOps(w, ops, i) ==
    IF i > Len(ops) THEN [w |-> w, val |-> "none"]
    ELSE IF ops[i][1] = "panic" THEN [w |-> w, val |-> ops[i][2]]
    ELSE RunOps(WriteBody(w, ops[i][2]), ops, i + 1)

\* The terminal handler runs.
RunTerminal(r) ==
    /\ pc[r].mode = "call"
    /\ pc[r].depth = Len(chain)
    /\ LET d == pc[r].depth
           res == RunOps(resp[r], TerminalOps(chain[d]), 1)
       IN /\ ran' = [ran EXCEPT ![r] = Append(@, chain[d])]
          /\ resp' = [resp EXCEPT ![r] = res.w]
          /\ pc' = [pc EXCEPT ![r] =
                        [mode |-> IF res.val = "none" THEN "ret" ELSE "panic",
                         depth |-> d - 1, val |-> res.val]]
    /\ UNCHANGED <<Composition, req, stdout>>

\* Control leaves the frame of the stage at pc[r].depth, normally or by a
\* panic; LoggingFunc's deferred function runs as its frame is left. At depth
\* 0 the composed handler has returned to the server, or the panic has
\* reached it.
LeaveStage(r) ==
    /\ pc[r].mode \in {"ret", "panic"}
    /\ LET d == pc[r].depth
           v == pc[r].val
       IN IF d = 0
          THEN /\ pc' = [pc EXCEPT ![r] =
                            [mode |-> IF v = "none" THEN "done" ELSE "crashed",
                             depth |-> 0, val |-> v]]
               /\ UNCHANGED resp
          ELSE IF chain[d] = "LoggingFunc"
          THEN LET def == LoggingFuncDeferred(v)
               IN /\ resp' = [resp EXCEPT ![r] =
                                IF def.status # 0 THEN WriteHeader(@, def.status) ELSE @]
                  /\ pc' = [pc EXCEPT ![r] =
                                IF def.recovers \/ v = "none"
                                THEN [mode |-> "ret", depth |-> d - 1, val |-> "none"]
                                ELSE [mode |-> "panic", depth |-> d - 1, val |-> v]]
          ELSE /\ pc' = [pc EXCEPT ![r] = [@ EXCEPT !.depth = d - 1]]
               /\ UNCHANGED resp
    /\ UNCHANGED <<Composition, req, ran, stdout>>

Serve(r) == Receive(r) \/ EnterStage(r) \/ RunTerminal(r) \/ LeaveStage(r)

\* One request at a time, against any composition.
Next == Serve(1)

Spec == Init /\ [][Next]_vars

\* Any number of requests in flight against a handler a main_* registered.
ConcNext == \E r \in Requests : Serve(r)

ConcSpec == ConcInit /\ [][ConcNext]_vars

\* ----------------------------------------------------------------- claims
Finished(r) == pc[r].mode \in {"done", "crashed"}

\* The function at depth d of the composed handler has been entered.
Entered(r, d) == Len(ran[r]) >= d

\* The terminal handler has been entered.
TerminalRan(r) == Entered(r, Len(chain))

Reverse(s) == [i \in 1 .. Len(s) |-> s[Len(s) + 1 - i]]

IsPrefix(p, s) == Len(p) <= Len(s) /\ \A i \in 1 .. Len(p) : p[i] = s[i]

Missing(r) == req[r].hdr = ""
Mismatch(r) == req[r].hdr # "" /\ req[r].hdr # req[r].id

\* The depths of the composed handler that hold a stage of the set S.
DepthsOf(S) == {d \in 1 .. Len(chain) - 1 : chain[d] \in S}

\* C1 as stated: the middlewares of the list handed to Chain are entered in
\* list order, the first listed first, and the terminal handler last.
C1_EnteredInListOrder ==
    \A r \in Requests :
        middlewares # <<>> => IsPrefix(ran[r], middlewares \o <<terminal>>)

\* C1 amended: the LAST middleware of the list is the outermost wrapper; the
\* stages are entered in reverse list order, then the terminal handler. With
\* M1 = AuthFunc on a request without header (always short-circuits) and
\* M2 = LoggingFunc (always passes through): Chain(t, M1, M2) runs M2's
\* pre-logic and then M1 short-circuits; Chain(t, M2, M1) runs M1 alone.
C1_LastListedIsOutermost ==
    \A r \in Requests :
        middlewares # <<>> =>
            /\ chain = Reverse(middlewares) \o <<terminal>>
            /\ IsPrefix(ran[r], chain)
            /\ (Finished(r) /\ Missing(r) /\ middlewares = <<"AuthFunc", "LoggingFunc">>
                    => ran[r] = <<"LoggingFunc", "AuthFunc">>)
            /\ (Finished(r) /\ Missing(r) /\ middlewares = <<"LoggingFunc", "AuthFunc">>
                    => ran[r] = <<"AuthFunc">>)

C1_Witness ==
    /\ program = "Chain"
    /\ middlewares = <<"AuthFunc", "LoggingFunc">>
    /\ pc[1].mode = "done" /\ Missing(1)
    /\ ran[1] = <<"LoggingFunc", "AuthFunc">>

\* C2 as stated: when the first middleware of the list rejects the request,
\* neither the terminal handler nor any part of a later middleware of the
\* list runs (the first listed middleware sits at depth Len(middlewares)).
C2_NothingButFirstRuns ==
    \A r \in Requests :
        (middlewares # <<>> /\ middlewares[1] = "AuthFunc" /\ (Missing(r) \/ Mismatch(r)))
            => /\ ~TerminalRan(r)
               /\ \A k \in 1 .. Len(ran[r]) : k = Len(middlewares)

\* C2 amended: when the first middleware of the list rejects the request the
\* terminal handler never runs and writes nothing; the later middlewares of
\* the list wrap the first and are entered before it: for
\* Chain(t, AuthFunc(), LoggingFunc()) LoggingFunc's stage runs, then AuthFunc
\* rejects with 401.
C2_TerminalNeverRuns ==
    \A r \in Requests :
        (middlewares # <<>> /\ middlewares[1] = "AuthFunc" /\ (Missing(r) \/ Mismatch(r)))
            => /\ ~TerminalRan(r)
               /\ resp[r].body = <<>>
               /\ IsPrefix(ran[r], Reverse(middlewares))
               /\ (Finished(r) /\ middlewares = <<"AuthFunc", "LoggingFunc">>
                       => ran[r] = <<"LoggingFunc", "AuthFunc">>
                          /\ resp[r].status = StatusUnauthorized)

C2_Witness ==
    /\ middlewares = <<"AuthFunc", "LoggingFunc">>
    /\ terminal = "SayHello"
    /\ pc[1].mode = "done" /\ Mismatch(1)
    /\ ran[1] = <<"LoggingFunc", "AuthFunc">>
    /\ resp[1].status = StatusUnauthorized

\* What a request that every stage let through ends with: every function of
\* the handler entered once, in order; no 401; and, for the terminal handlers
\* of main.go, exactly the terminal handler's output with status 200.
PassedThrough(r) ==
    /\ ran[r] = chain
    /\ resp[r].status # StatusUnauthorized
    /\ terminal \in {"GetAccount", "SayHello"}
           => /\ pc[r].mode = "done"
              /\ resp[r] = [status |-> 200, calls |-> 0, late |-> FALSE,
                            body |-> <<TerminalOps(terminal)[1][2]>>]

\* C3 as stated: for ALL header and id values with header = id, every
\* authorization stage entered calls next, and the request ends with the
\* terminal handler run once, its output written and no 401.
C3_EqualAlwaysPasses ==
    \A r \in Requests :
        (req[r].hdr = req[r].id /\ program # "main_bad")
            => /\ \A d \in DepthsOf(AuthStages) :
                      (Entered(r, d) /\ pc[r] # [mode |-> "call", depth |-> d + 1, val |-> "none"])
                          => Entered(r, d + 1)
               /\ Finished(r) => PassedThrough(r)

\* C3 amended: the same for every NON-EMPTY header value equal to the id.
C3_EqualNonEmptyPasses ==
    \A r \in Requests :
        (req[r].hdr = req[r].id /\ req[r].hdr # "" /\ program # "main_bad")
            => /\ \A d \in DepthsOf(AuthStages) :
                      (Entered(r, d) /\ pc[r] # [mode |-> "call", depth |-> d + 1, val |-> "none"])
                          => Entered(r, d + 1)
               /\ Finished(r) => PassedThrough(r)

C3_Witness ==
    /\ program = "main_uses_chain"
    /\ req[1] = [hdr |-> "a", id |-> "a"]
    /\ pc[1].mode = "done"
    /\ ran[1] = <<"MWAuthFunc", "SayHello">>
    /\ resp[1].body = <<"Hello client\n">>

\* C4: a request without (or with an empty) Authorization header: every
\* authorization stage entered, AuthorizationMiddleware_Bad included, leaves
\* the response with status 401 and does not call next, whatever the id.
C4_MissingHeaderIs401 ==
    \A r \in Requests :
        \A d \in DepthsOf(AuthStages \cup {"AuthorizationMiddleware_Bad"}) :
            (Missing(r) /\ Entered(r, d))
                => /\ ~Entered(r, d + 1)
                   /\ resp[r].status = StatusUnauthorized
                   /\ pc[r].mode \in {"ret", "done"}

C4_Witness ==
    /\ program = "main_bad2"
    /\ req[1] = [hdr |-> "", id |-> ""]
    /\ pc[1].mode = "done"
    /\ ran[1] = <<"AuthorizationMiddleware_Bad">>
    /\ resp[1].status = StatusUnauthorized

\* C5: a request whose header is non-empty and differs from the id: every
\* authorization stage entered leaves status 401 and never calls next; an
\* authorization stage calls next only when header = id.
C5_MismatchIs401 ==
    \A r \in Requests :
        \A d \in DepthsOf(AuthStages) :
            /\ (Mismatch(r) /\ Entered(r, d))
                 => /\ ~Entered(r, d + 1)
                    /\ resp[r].status = StatusUnauthorized
                    /\ pc[r].mode \in {"ret", "done"}
            /\ (Entered(r, d) /\ (Entered(r, d + 1) \/ pc[r].depth = d + 1))
                 => req[r].hdr = req[r].id

C5_Witness ==
    /\ program = "main_good"
    /\ req[1] = [hdr |-> "b", id |-> "a"]
    /\ pc[1].mode = "done"
    /\ ran[1] = <<"AuthorizationMiddleware">>
    /\ resp[1].status = StatusUnauthorized

\* C6: in main_good, main_chain and main_uses_chain a request that fails
\* authorization, for either reason, ends with the same response: 401 written
\* by one WriteHeader call, no body, the handler returned, the authorization
\* stage the last function entered.
C6_FailureResponse ==
    \A r \in Requests :
        (program \in {"main_good", "main_chain", "main_uses_chain"}
         /\ Finished(r) /\ (Missing(r) \/ Mismatch(r)))
            => /\ resp[r] = [status |-> StatusUnauthorized, calls |-> 1,
                             late |-> FALSE, body |-> <<>>]
               /\ pc[r].mode = "done"
               /\ ran[r] # <<>> /\ ran[r][Len(ran[r])] \in AuthStages
               /\ ~TerminalRan(r)

C6_Witness ==
    /\ program = "main_chain"
    /\ pc[1].mode = "done" /\ Missing(1)
    /\ resp[1] = [status |-> StatusUnauthorized, calls |-> 1, late |-> FALSE, body |-> <<>>]
    /\ ran[1] = <<"LoggingFunc", "AuthFunc">>

\* The outcome of calling, alone and to completion, the function at depth d
\* of handler h with header p, id t and response writer w: the writer, the
\* functions entered, and the panic value that leaves the call ("none" for a
\* normal return).
RECURSIVE CallAlone(_, _, _, _, _)
CallAlone(h, d, p, t, w) ==
    IF d = Len(h)
    THEN LET res == RunOps(w, TerminalOps(h[d]), 1)
         IN [w |-> res.w, ran |-> <<h[d]>>, val |-> res.val]
    ELSE LET pre == PreLogic(h[d], p, t)
             w1 == IF pre.status # 0 THEN WriteHeader(w, pre.status) ELSE w
         IN IF ~pre.next
            THEN [w |-> w1, ran |-> <<h[d]>>, val |-> "none"]
            ELSE LET in == CallAlone(h, d + 1, p, t, w1)
                     def == LoggingFuncDeferred(in.val)
                 IN IF h[d] = "LoggingFunc"
                    THEN [w |-> IF def.status # 0 THEN WriteHeader(in.w, def.status)
                                ELSE in.w,
                          ran |-> <<h[d]>> \o in.ran,
                          val |-> IF def.recovers THEN "none" ELSE in.val]
                    ELSE [w |-> in.w, ran |-> <<h[d]>> \o in.ran, val |-> in.val]

OutcomeAlone(r) == CallAlone(chain, 1, req[r].hdr, req[r].id, NewResponse)

\* A step of one request leaves every other request's state as it was.
OthersUntouched ==
    \A r \in Requests :
        pc'[r] = pc[r] =>
            req'[r] = req[r] /\ resp'[r] = resp[r] /\ ran'[r] = ran[r]

\* C7: with any number of requests in flight and any interleaving of their
\* steps, every finished request has the response, the functions entered and
\* the ending (returned or panicked) it has when run alone with its own
\* header and id; a step of one request changes no other request's state;
\* and the composed handler never changes.
C7_RequestsIndependent ==
    /\ [](\A r \in Requests :
            Finished(r) =>
                /\ resp[r] = OutcomeAlone(r).w
                /\ ran[r] = OutcomeAlone(r).ran
                /\ (pc[r].mode = "done") = (OutcomeAlone(r).val = "none"))
    /\ [][OthersUntouched /\ Composition' = Composition]_vars

\* Two requests with different outcomes have both finished, the second one
\* having been received while the first was in flight.
C7_Witness ==
    /\ program = "main_chain"
    /\ req[1] = [hdr |-> "a", id |-> "a"] /\ req[2] = [hdr |-> "b", id |-> "a"]
    /\ pc[1].mode = "done" /\ pc[2].mode = "done"
    /\ resp[1].status = 200 /\ resp[2].status = StatusUnauthorized
    /\ stdout = << <<"request", "a", "a">>, <<"request", "b", "a">>,
                   <<"ownership not matched">>, <<"tokenID: ", "a">> >>

\* C8 as stated: for Chain(t, AuthFunc(), LoggingFunc()) and every behaviour
\* of t, no stage calls WriteHeader once a status or body bytes have been
\* written, and WriteHeader is called at most once per request.
C8_SingleResponse ==
    \A r \in Requests :
        middlewares = <<"AuthFunc", "LoggingFunc">>
            => ~resp[r].late /\ resp[r].calls <= 1

\* C9 as stated: whenever the handler LoggingFunc wraps panics, with any
\* value, the panic does not leave the stage and the status is 500; when the
\* wrapped handler returns normally the stage writes no status. Stated for
\* the LoggingFunc that wraps the terminal handler, once its frame is left.
C9_PanicBecomes500 ==
    \A r \in Requests :
        (Len(chain) >= 2 /\ chain[Len(chain) - 1] = "LoggingFunc"
         /\ TerminalRan(r) /\ pc[r].depth < Len(chain) - 1)
            => IF terminal \in {"GetAccount", "SayHello"}
               THEN resp[r].calls = 0
               ELSE /\ pc[r].mode \in {"ret", "done"}
                    /\ resp[r].status = StatusInternalServerError

\* The part of a stage's pre-logic a client or the next handler can see.
Gate(res) == [status |-> res.status, next |-> res.next]

====
